---- MODULE Spec2Model ----
(***************************************************************************)
(* A model of server.js: the Express handlers of the product catalogue and *)
(* of the hero-image carousel, the two Mongoose collections they write and *)
(* the Cloudinary uploads they await.                                      *)
(*                                                                         *)
(* A request occupies a slot of req from its arrival to its response.  An  *)
(* action is the code a handler runs between two awaits: the arrival runs  *)
(* up to the first await, every later action is the settling of the        *)
(* awaited promise (an upload, a store call) followed by the handler's     *)
(* continuation up to the next await or the response.  The store executes  *)
(* each call atomically.  The store is taken to be reachable: a store call *)
(* rejects only where Mongoose itself rejects it (a cast or a validation   *)
(* error, a save of a deleted document).  The two GET handlers read only   *)
(* and are left out.                                                       *)
(***************************************************************************)
EXTENDS Integers, Sequences, FiniteSets, TLC

VARIABLES products, heroes, nextProductId, nextHeroId, req

vars == <<products, heroes, nextProductId, nextHeroId, req>>

(***************************************************************************)
(* Bounds of the model.                                                    *)
(***************************************************************************)
MaxFiles == 2
MaxProducts == 1
MaxHeroes == 1
MaxReqs == 2

\* upload.array('images', 5): multer refuses a request with more parts.
FileLimit == 5

Reqs == 1 .. MaxReqs
NumFiles == 0 .. (IF MaxFiles < FileLimit THEN MaxFiles ELSE FileLimit)

(***************************************************************************)
(* JavaScript values of a request body: undefined, a text, a boolean.      *)
(***************************************************************************)
Undefined == [t |-> "undefined", v |-> ""]
Str(s) == [t |-> "string", v |-> s]
Bool(b) == [t |-> "boolean", v |-> IF b THEN "true" ELSE "false"]

\* A JavaScript number; NaN is a number that is no integer.
Num(n) == [t |-> "number", n |-> n]
NaN == [t |-> "NaN", n |-> 0]

\* The numerals the bodies of the model carry, with their values.
Numerals == ("10" :> 10) @@ ("25" :> 25) @@ ("3" :> 3) @@ ("7" :> 7)

\* Number(x): undefined is NaN, the empty text is 0, a numeral is its value,
\* any other text is NaN.
ToNumber(x) ==
  IF x.t = "string"
  THEN IF x.v \in DOMAIN Numerals THEN Num(Numerals[x.v])
       ELSE IF x.v = "" THEN Num(0) ELSE NaN
  ELSE NaN

\* The truthiness of x in `x ? a : b': undefined and the empty text are falsy.
Truthy(x) ==
  \/ x.t = "string" /\ x.v # ""
  \/ x = Bool(TRUE)

(***************************************************************************)
(* Request bodies.  A body supplies a subset of the five fields; a field   *)
(* that is not supplied is undefined after the destructuring.  Version 1   *)
(* texts are sent by create requests and version 2 texts by updates, so    *)
(* that a replaced field differs from the field it replaces.               *)
(***************************************************************************)
Fields == {"name", "category", "price", "description", "quantity"}
Required == {"name", "category", "price"}

FieldText(f, ver) ==
  CASE f = "name" -> IF ver = 1 THEN "n1" ELSE "n2"
    [] f = "category" -> IF ver = 1 THEN "c1" ELSE "c2"
    [] f = "price" -> IF ver = 1 THEN "10" ELSE "25"
    [] f = "description" -> IF ver = 1 THEN "d1" ELSE "d2"
    [] f = "quantity" -> IF ver = 1 THEN "3" ELSE "7"

BodyOf(S, ver) ==
  [f \in Fields |-> IF f \in S THEN Str(FieldText(f, ver)) ELSE Undefined]

EmptyBody == BodyOf({}, 1)
Supplied(body) == {f \in Fields : body[f] # Undefined}

\* The bodies of Spec and SpecSerial: a create supplies every field, the
\* required fields only or the price only; an update supplies every field or
\* the price only.
CreateSample == {Fields, Required, {"price"}}
UpdateSample == {Fields, {"price"}}
\* The bodies of SpecFields: an update supplies any subset of the fields.
AllFields == SUBSET Fields

(***************************************************************************)
(* Identifiers.  The store assigns the ids 1, 2, ... (ObjectIds); BadId is *)
(* a path parameter that is no ObjectId (not 24 hex digits), which         *)
(* Mongoose refuses to cast: the query rejects with a CastError.           *)
(***************************************************************************)
BadId == 0
IsObjectId(id) == id # BadId
ProductIds == 1 .. MaxProducts
HeroIds == 1 .. MaxHeroes

(***************************************************************************)
(* Uploads.  The hosted URL of a file is decided by the folder and the     *)
(* file; the files of a request are its parts 1 .. n in submission order.  *)
(***************************************************************************)
ProductFolder == "maison_products"
HeroFolder == "maison_hero"
Url(folder, file) == [folder |-> folder, file |-> file]
NoUrl == Url("", 0)

\* uploadToCloudinary(buffer), uploadHeroToCloudinary(buffer): the result
\* the promise resolves with.
uploadToCloudinary(file) == [secure_url |-> Url(ProductFolder, file)]
uploadHeroToCloudinary(file) == [secure_url |-> Url(HeroFolder, file)]

FilesOf(n) == [k \in 1 .. n |-> k]
AllPending(n) == [k \in 1 .. n |-> "pending"]

\* A mutant of PromiseAll: the results in the order the uploads completed.
PromiseAllByCompletion(q) ==
  [i \in 1 .. Len(q.files) |-> uploadToCloudinary(q.files[q.settled[i]])]

\* await Promise.all(req.files.map(file => uploadToCloudinary(file.buffer))):
\* the i-th result is the result of the i-th file.
PromiseAll(q) ==
  [i \in 1 .. Len(q.files) |-> uploadToCloudinary(q.files[i])]

AllFulfilled(results) == \A k \in DOMAIN results : results[k] = "fulfilled"

\* What the handler's await of its uploads yields: uploadResults in the
\* product handlers, the one result in the hero handler.
Awaited(q) ==
  IF q.kind = "createHero"
  THEN <<uploadHeroToCloudinary(q.files[1])>>
  ELSE PromiseAll(q)

(***************************************************************************)
(* The schemas.                                                            *)
(***************************************************************************)
\* new Product({...}) of the create handler.
NewProduct(body, uploadResults) ==
  [name |-> body.name,
   category |-> body.category,
   price |-> ToNumber(body.price),
   quantity |-> IF Truthy(body.quantity) THEN ToNumber(body.quantity) ELSE Num(0),
   description |-> body.description,
   mainImage |-> uploadResults[1].secure_url,
   otherImages |-> [i \in 1 .. Len(uploadResults) - 1 |-> uploadResults[i + 1].secure_url]]

\* productSchema's validation on save: name, category, price and mainImage
\* are required (a required String is not empty), a Number is not NaN.
ProductValid(doc) ==
  /\ doc.name.t = "string" /\ doc.name.v # ""
  /\ doc.category.t = "string" /\ doc.category.v # ""
  /\ doc.price.t = "number"
  /\ doc.quantity.t = "number"
  /\ doc.mainImage # NoUrl

\* A mutant of IsActiveFlag: the truthiness of the value.
IsActiveTruthy(x) == Truthy(x)

\* req.body.isActive === 'true' || req.body.isActive === true
IsActiveFlag(x) == x = Str("true") \/ x = Bool(TRUE)

IsActiveValues == {Undefined, Str("true"), Str("false"), Bool(TRUE), Bool(FALSE)}

NewHero(result, isActive) ==
  [imageUrl |-> result.secure_url, isActive |-> IsActiveFlag(isActive)]

NoHero == [imageUrl |-> NoUrl, isActive |-> FALSE]

\* A mutant of Toggled: the flag is set instead of inverted.
Activated(doc) == [doc EXCEPT !.isActive = TRUE]

\* hero.isActive = !hero.isActive
Toggled(doc) == [doc EXCEPT !.isActive = ~@]

(***************************************************************************)
(* Store calls.                                                            *)
(***************************************************************************)
\* The collection after Model.findByIdAndDelete(id).
FindByIdAndDelete(coll, id) == [k \in DOMAIN coll \ {id} |-> coll[k]]

\* const updateData = { name, category, price: Number(price), description,
\*                      quantity: Number(quantity) }, with the images of the
\* uploads when files were sent.
UpdateData(q) ==
  [name |-> q.body.name,
   category |-> q.body.category,
   price |-> ToNumber(q.body.price),
   description |-> q.body.description,
   quantity |-> ToNumber(q.body.quantity)]

\* The update casts: a NaN price or quantity is a CastError.
UpdateCasts(data) == data.price.t = "number" /\ data.quantity.t = "number"

\* The document after Product.findByIdAndUpdate(id, updateData, {new: true}):
\* an undefined key of the update is left out of the $set, the images are
\* part of the update only when files were sent.
UpdatedProduct(doc, q) ==
  LET data == UpdateData(q)
      put(f) == IF data[f] = Undefined THEN doc[f] ELSE data[f]
      results == q.uploadResults
  IN  [name |-> put("name"),
       category |-> put("category"),
       price |-> data.price,
       description |-> put("description"),
       quantity |-> data.quantity,
       mainImage |-> IF Len(q.files) > 0 THEN results[1].secure_url ELSE doc.mainImage,
       otherImages |-> IF Len(q.files) > 0
                       THEN [i \in 1 .. Len(results) - 1 |-> results[i + 1].secure_url]
                       ELSE doc.otherImages]

(***************************************************************************)
(* Requests.                                                               *)
(***************************************************************************)
IdleReq ==
  [kind |-> "none", pc |-> "idle", id |-> BadId, body |-> EmptyBody,
   isActive |-> Undefined, files |-> <<>>, results |-> <<>>, settled |-> <<>>,
   uploadResults |-> <<>>, hero |-> NoHero, status |-> 0]

Free(r) == req[r].pc \in {"idle", "done"}
InFlight(r) == ~Free(r)
\* The response ends the request: of the handler's locals the slot keeps what
\* the request was (its kind, id, isActive, files and the fate of its uploads).
Respond(q, status) ==
  [IdleReq EXCEPT !.kind = q.kind, !.id = q.id, !.isActive = q.isActive,
                  !.files = q.files, !.results = q.results,
                  !.pc = "done", !.status = status]

\* The requests that will still create a document of a collection.
Creating(kind) ==
  Cardinality({q \in Reqs : req[q].kind = kind /\ req[q].pc \in {"upload", "save"}})

Init ==
  /\ products = <<>>
  /\ heroes = <<>>
  /\ nextProductId = 1
  /\ nextHeroId = 1
  /\ req = [r \in Reqs |-> IdleReq]


(***************************************************************************)
(* POST /api/products                                                      *)
(***************************************************************************)
\* A mutant of MissingImages: the check is left out.
NeverMissing(n) == FALSE

\* !req.files || req.files.length === 0
MissingImages(n) == n = 0

\* The await that follows the uploads of a handler.
NextAwait(kind) == IF kind = "updateProduct" THEN "update" ELSE "save"

PostProduct(r, body, n) ==
  /\ Free(r)
  /\ MissingImages(n) \/ nextProductId + Creating("createProduct") <= MaxProducts
  /\ LET q == [IdleReq EXCEPT !.kind = "createProduct", !.body = body,
                              !.files = FilesOf(n), !.results = AllPending(n)]
     IN  req' = [req EXCEPT ![r] = IF MissingImages(n)
                                   THEN Respond(q, 400)
                                   ELSE [q EXCEPT !.pc = "upload"]]
  /\ UNCHANGED <<products, heroes, nextProductId, nextHeroId>>

\* The k-th upload of the request resolves; when it is the last, the await
\* yields its results (the order of completion is then of no further use) and
\* the handler goes on to its store call.
UploadResolve(r, k) ==
  /\ req[r].pc = "upload"
  /\ k \in DOMAIN req[r].results
  /\ req[r].results[k] = "pending"
  /\ LET q == [req[r] EXCEPT !.results[k] = "fulfilled", !.settled = Append(@, k)]
     IN  req' = [req EXCEPT ![r] = IF AllFulfilled(q.results)
                                   THEN [q EXCEPT !.uploadResults = Awaited(q),
                                                  !.settled = <<>>,
                                                  !.pc = NextAwait(q.kind)]
                                   ELSE q]
  /\ UNCHANGED <<products, heroes, nextProductId, nextHeroId>>

\* A mutant of AfterReject: the rejection is swallowed and the handler goes on.
RejectSwallowed(q) == [q EXCEPT !.uploadResults = Awaited(q), !.pc = NextAwait(q.kind)]

\* Promise.all rejects with the first rejection; the catch block answers 500.
AfterReject(q) == Respond(q, 500)

\* The k-th upload of the request rejects.
UploadReject(r, k) ==
  /\ req[r].pc = "upload"
  /\ k \in DOMAIN req[r].results
  /\ req[r].results[k] = "pending"
  /\ req' = [req EXCEPT ![r] = AfterReject([req[r] EXCEPT !.results[k] = "rejected"])]
  /\ UNCHANGED <<products, heroes, nextProductId, nextHeroId>>

\* new Product({...}); await newProduct.save(); res.status(201).json(newProduct)
ProductSave(r) ==
  /\ req[r].kind = "createProduct"
  /\ req[r].pc = "save"
  /\ LET doc == NewProduct(req[r].body, req[r].uploadResults)
     IN  IF ProductValid(doc)
         THEN /\ products' = products @@ (nextProductId :> doc)
              /\ nextProductId' = nextProductId + 1
              /\ req' = [req EXCEPT ![r] = Respond([req[r] EXCEPT !.id = nextProductId], 201)]
         ELSE /\ req' = [req EXCEPT ![r] = Respond(req[r], 500)]
              /\ UNCHANGED <<products, nextProductId>>
  /\ UNCHANGED <<heroes, nextHeroId>>

(***************************************************************************)
(* PUT /api/products/:id                                                   *)
(***************************************************************************)
PutProduct(r, id, body, n) ==
  /\ Free(r)
  /\ LET q == [IdleReq EXCEPT !.kind = "updateProduct", !.id = id, !.body = body,
                              !.files = FilesOf(n), !.results = AllPending(n)]
     IN  req' = [req EXCEPT ![r] = [q EXCEPT !.pc = IF n > 0 THEN "upload" ELSE "update"]]
  /\ UNCHANGED <<products, heroes, nextProductId, nextHeroId>>

\* await Product.findByIdAndUpdate(req.params.id, updateData, { new: true });
\* res.json(updatedProduct): null, with status 200, when the id is unknown.
ProductUpdate(r) ==
  /\ req[r].kind = "updateProduct"
  /\ req[r].pc = "update"
  /\ IF ~IsObjectId(req[r].id) \/ ~UpdateCasts(UpdateData(req[r]))
     THEN /\ req' = [req EXCEPT ![r] = Respond(req[r], 500)]
          /\ UNCHANGED products
     ELSE /\ req' = [req EXCEPT ![r] = Respond(req[r], 200)]
          /\ products' = IF req[r].id \in DOMAIN products
                         THEN [products EXCEPT ![req[r].id] = UpdatedProduct(@, req[r])]
                         ELSE products
  /\ UNCHANGED <<heroes, nextProductId, nextHeroId>>

(***************************************************************************)
(* DELETE /api/products/:id and DELETE /api/hero-images/:id                *)
(***************************************************************************)
\* A mutant of DeleteResponse: an id that is not in the collection is a 404.
DeleteResponseChecked(q, coll) ==
  Respond(q, IF q.id \in DOMAIN coll THEN 200 ELSE 404)

\* res.json({ message: '... deleted' }): what the store call found is not read.
DeleteResponse(q, coll) == Respond(q, 200)

DeleteProduct(r, id) ==
  /\ Free(r)
  /\ req' = [req EXCEPT ![r] = [IdleReq EXCEPT !.kind = "deleteProduct", !.id = id,
                                               !.pc = "delete"]]
  /\ UNCHANGED <<products, heroes, nextProductId, nextHeroId>>

\* await Product.findByIdAndDelete(req.params.id)
ProductDelete(r) ==
  /\ req[r].kind = "deleteProduct"
  /\ req[r].pc = "delete"
  /\ IF IsObjectId(req[r].id)
     THEN /\ products' = FindByIdAndDelete(products, req[r].id)
          /\ req' = [req EXCEPT ![r] = DeleteResponse(req[r], products)]
     ELSE /\ req' = [req EXCEPT ![r] = Respond(req[r], 500)]
          /\ UNCHANGED products
  /\ UNCHANGED <<heroes, nextProductId, nextHeroId>>

DeleteHero(r, id) ==
  /\ Free(r)
  /\ req' = [req EXCEPT ![r] = [IdleReq EXCEPT !.kind = "deleteHero", !.id = id,
                                               !.pc = "delete"]]
  /\ UNCHANGED <<products, heroes, nextProductId, nextHeroId>>

\* await HeroImage.findByIdAndDelete(req.params.id)
HeroDelete(r) ==
  /\ req[r].kind = "deleteHero"
  /\ req[r].pc = "delete"
  /\ IF IsObjectId(req[r].id)
     THEN /\ heroes' = FindByIdAndDelete(heroes, req[r].id)
          /\ req' = [req EXCEPT ![r] = DeleteResponse(req[r], heroes)]
     ELSE /\ req' = [req EXCEPT ![r] = Respond(req[r], 500)]
          /\ UNCHANGED heroes
  /\ UNCHANGED <<products, nextProductId, nextHeroId>>

(***************************************************************************)
(* POST /api/hero-images                                                   *)
(***************************************************************************)
\* upload.single('image'): n is 1 when the part is there and 0 when not.
PostHero(r, isActive, n) ==
  /\ Free(r)
  /\ n = 0 \/ nextHeroId + Creating("createHero") <= MaxHeroes
  /\ LET q == [IdleReq EXCEPT !.kind = "createHero", !.isActive = isActive,
                              !.files = FilesOf(n), !.results = AllPending(n)]
     IN  req' = [req EXCEPT ![r] = IF n = 0
                                   THEN Respond(q, 400)
                                   ELSE [q EXCEPT !.pc = "upload"]]
  /\ UNCHANGED <<products, heroes, nextProductId, nextHeroId>>

\* new HeroImage({...}); await hero.save(); res.status(201).json(hero)
HeroSave(r) ==
  /\ req[r].kind = "createHero"
  /\ req[r].pc = "save"
  /\ heroes' = heroes @@
       (nextHeroId :> NewHero(req[r].uploadResults[1], req[r].isActive))
  /\ nextHeroId' = nextHeroId + 1
  /\ req' = [req EXCEPT ![r] = Respond([req[r] EXCEPT !.id = nextHeroId], 201)]
  /\ UNCHANGED <<products, nextProductId>>

(***************************************************************************)
(* PATCH /api/hero-images/:id/toggle                                       *)
(***************************************************************************)
PatchToggle(r, id) ==
  /\ Free(r)
  /\ req' = [req EXCEPT ![r] = [IdleReq EXCEPT !.kind = "toggleHero", !.id = id,
                                               !.pc = "find"]]
  /\ UNCHANGED <<products, heroes, nextProductId, nextHeroId>>

\* A mutant of ToggleMissing: no null check, hero.isActive throws on null.
ToggleMissingThrows(q) == Respond(q, 500)

\* if (!hero) return res.status(404).json({ error: 'Hero image not found' })
ToggleMissing(q) == Respond(q, 404)

\* const hero = await HeroImage.findById(req.params.id), the null check, and
\* hero.isActive = !hero.isActive on the document that was read.
HeroFindById(r) ==
  /\ req[r].kind = "toggleHero"
  /\ req[r].pc = "find"
  /\ req' = [req EXCEPT ![r] =
       IF ~IsObjectId(req[r].id) THEN Respond(req[r], 500)
       ELSE IF req[r].id \notin DOMAIN heroes THEN ToggleMissing(req[r])
       ELSE [req[r] EXCEPT !.hero = Toggled(heroes[req[r].id]), !.pc = "save"]]
  /\ UNCHANGED <<products, heroes, nextProductId, nextHeroId>>

\* await hero.save(): the modified path is written to the stored document;
\* the save rejects when the document is no longer there.  res.json(hero).
HeroToggleSave(r) ==
  /\ req[r].kind = "toggleHero"
  /\ req[r].pc = "save"
  /\ IF req[r].id \in DOMAIN heroes
     THEN /\ heroes' = [heroes EXCEPT ![req[r].id].isActive = req[r].hero.isActive]
          /\ req' = [req EXCEPT ![r] = Respond(req[r], 200)]
     ELSE /\ req' = [req EXCEPT ![r] = Respond(req[r], 500)]
          /\ UNCHANGED heroes
  /\ UNCHANGED <<products, nextProductId, nextHeroId>>

(***************************************************************************)
(* Specifications.                                                         *)
(***************************************************************************)
ProductArrivals(r, CreateFields, UpdateFields) ==
  \/ \E S \in CreateFields, n \in NumFiles : PostProduct(r, BodyOf(S, 1), n)
  \/ \E id \in {BadId} \cup ProductIds, S \in UpdateFields, n \in NumFiles :
       PutProduct(r, id, BodyOf(S, 2), n)
  \/ \E id \in {BadId} \cup ProductIds : DeleteProduct(r, id)

HeroArrivals(r) ==
  \/ \E x \in IsActiveValues, n \in {0, 1} : PostHero(r, x, n)
  \/ \E id \in {BadId} \cup HeroIds : PatchToggle(r, id)
  \/ \E id \in {BadId} \cup HeroIds : DeleteHero(r, id)

UploadSteps(r) ==
  \/ \E k \in 1 .. MaxFiles : UploadResolve(r, k)
  \/ \E k \in 1 .. MaxFiles : UploadReject(r, k)

ProductSteps(r) ==
  \/ ProductSave(r)
  \/ ProductUpdate(r)
  \/ ProductDelete(r)

HeroSteps(r) ==
  \/ HeroSave(r)
  \/ HeroFindById(r)
  \/ HeroToggleSave(r)
  \/ HeroDelete(r)

\* Requests overlap: a request may arrive while others are in flight.
Next ==
  \E r \in Reqs :
    \/ ProductArrivals(r, {Fields}, UpdateSample)
    \/ HeroArrivals(r)
    \/ UploadSteps(r)
    \/ ProductSteps(r)
    \/ HeroSteps(r)

Spec == Init /\ [][Next]_vars

\* One request at a time: a request arrives when no other is in flight.
Quiet == \A q \in Reqs : Free(q)
First(r) == \A q \in Reqs : r <= q

NextSerial ==
  \E r \in Reqs :
    \/ Quiet /\ First(r) /\ ProductArrivals(r, CreateSample, UpdateSample)
    \/ Quiet /\ First(r) /\ HeroArrivals(r)
    \/ UploadSteps(r)
    \/ ProductSteps(r)
    \/ HeroSteps(r)

SpecSerial == Init /\ [][NextSerial]_vars

\* The product handlers alone, one request at a time, an update supplying
\* any subset of the fields.
NextFields ==
  \E r \in Reqs :
    \/ Quiet /\ First(r) /\ ProductArrivals(r, {Fields, Required}, AllFields)
    \/ UploadSteps(r)
    \/ ProductSteps(r)

SpecFields == Init /\ [][NextFields]_vars

(***************************************************************************)
(* Properties.  A step of request r is a step that changes req[r].         *)
(***************************************************************************)
Steps(r) == InFlight(r) /\ req'[r] # req[r]
Arrives(r) == Free(r) /\ req'[r] # req[r]
Answers(r, kind) == req[r].kind = kind /\ Steps(r) /\ req'[r].pc = "done"
StoreUnchanged == products' = products /\ heroes' = heroes
Done(r, kind, status) ==
  req[r].kind = kind /\ req[r].pc = "done" /\ req[r].status = status

\* C1: a create-product request with N files (1 <= N <= 5) whose uploads all
\* succeed, in whatever order they complete, persists a Product whose
\* mainImage is the hosted URL of the first submitted file and whose
\* otherImages are the hosted URLs of the files 2..N in submission order.
C1_CreateImages ==
  [][\A r \in Reqs :
       (Answers(r, "createProduct") /\ req'[r].status = 201) =>
         LET files == req[r].files
             n == Len(files)
             id == req'[r].id
         IN  /\ n \in 1 .. FileLimit
             /\ AllFulfilled(req[r].results)
             /\ id \notin DOMAIN products
             /\ DOMAIN products' = DOMAIN products \cup {id}
             /\ products'[id].mainImage = Url(ProductFolder, files[1])
             /\ Len(products'[id].otherImages) = n - 1
             /\ \A i \in 1 .. n - 1 :
                  products'[id].otherImages[i] = Url(ProductFolder, files[i + 1])]_vars

\* A create with several files answered 201, its product stored.
C1_Witness ==
  \E r \in Reqs :
    /\ Done(r, "createProduct", 201)
    /\ Len(req[r].files) >= 2
    /\ req[r].id \in DOMAIN products
    /\ Len(products[req[r].id].otherImages) = Len(req[r].files) - 1

\* C2: a create-product request with zero files is answered 400 on arrival,
\* starts no upload and leaves both collections as they were.
C2_NoFiles ==
  [][\A r \in Reqs :
       (Arrives(r) /\ req'[r].kind = "createProduct" /\ Len(req'[r].files) = 0) =>
         /\ req'[r].pc = "done"
         /\ req'[r].status = 400
         /\ req'[r].results = <<>>
         /\ StoreUnchanged
         /\ nextProductId' = nextProductId]_vars

\* A create without files answered 400 while a product is stored.
C2_Witness ==
  \E r \in Reqs :
    /\ Done(r, "createProduct", 400)
    /\ Len(req[r].files) = 0
    /\ DOMAIN products # {}

\* C3: when an upload of a create-product, update-product or create-hero
\* request fails, the request is answered 500 and writes nothing; a request
\* writes to the store only when every one of its uploads has succeeded.
C3_UploadFailure ==
  [][\A r \in Reqs :
       /\ (/\ req[r].pc = "upload"
           /\ \E k \in DOMAIN req[r].results :
                /\ req[r].results[k] = "pending"
                /\ req'[r].results[k] = "rejected")
          => /\ req'[r].pc = "done"
             /\ req'[r].status = 500
             /\ StoreUnchanged
       /\ (/\ req[r].kind \in {"createProduct", "updateProduct", "createHero"}
           /\ Steps(r)
           /\ ~StoreUnchanged)
          => AllFulfilled(req[r].results)
       /\ (\E k \in DOMAIN req'[r].results : req'[r].results[k] = "rejected")
          => req'[r].pc = "done" /\ req'[r].status = 500]_vars

\* An update of a stored product answered 500 after one of its uploads
\* succeeded and another failed.
C3_Witness ==
  \E r \in Reqs :
    /\ Done(r, "updateProduct", 500)
    /\ req[r].id \in DOMAIN products
    /\ \E k \in DOMAIN req[r].results : req[r].results[k] = "rejected"
    /\ \E k \in DOMAIN req[r].results : req[r].results[k] = "fulfilled"

\* The hero collection after a toggle request on id that runs alone: the
\* lookup, the inversion and the save.
ToggleAlone(hs, id) ==
  IF IsObjectId(id) /\ id \in DOMAIN hs
  THEN [hs EXCEPT ![id].isActive = Toggled(hs[id]).isActive]
  ELSE hs

\* C4: with the requests handled one after the other, a toggle answered 200
\* stores the negation of the isActive stored before it, and a second toggle
\* of the same id then stores the value from before the first.
C4_ToggleTwice ==
  [][\A r \in Reqs :
       (Answers(r, "toggleHero") /\ req'[r].status = 200) =>
         LET id == req[r].id
         IN  /\ id \in DOMAIN heroes /\ id \in DOMAIN heroes'
             /\ heroes'[id].isActive = ~heroes[id].isActive
             /\ heroes'[id].imageUrl = heroes[id].imageUrl
             /\ ToggleAlone(heroes', id)[id].isActive = heroes[id].isActive
             /\ ToggleAlone(ToggleAlone(heroes, id), id) = heroes]_vars

\* A toggle answered 200 whose new value is what is stored.
C4_Witness ==
  \E r \in Reqs :
    /\ Done(r, "toggleHero", 200)
    /\ req[r].id \in DOMAIN heroes
    /\ heroes[req[r].id].isActive = req[r].hero.isActive

\* C5 as claimed: a toggle request whose lookup is for an id that is not in
\* the collection is answered 404 and leaves the collection as it was.
C5_Original ==
  [][\A r \in Reqs :
       (Answers(r, "toggleHero") /\ req[r].pc = "find" /\ req[r].id \notin DOMAIN heroes) =>
         /\ req'[r].status = 404
         /\ heroes' = heroes]_vars

\* C5 as amended: a toggle request whose lookup is for an id that is not in
\* the collection leaves both collections as they were; it is answered 404
\* when the id is an ObjectId and 500 when it is not.
C5_ToggleUnknown ==
  [][\A r \in Reqs :
       (Answers(r, "toggleHero") /\ req[r].pc = "find" /\ req[r].id \notin DOMAIN heroes) =>
         /\ req'[r].status = IF IsObjectId(req[r].id) THEN 404 ELSE 500
         /\ StoreUnchanged
         /\ nextHeroId' = nextHeroId]_vars

\* A toggle of an ObjectId that is not in the collection, answered 404.
C5_Witness ==
  \E r \in Reqs :
    /\ Done(r, "toggleHero", 404)
    /\ IsObjectId(req[r].id)
    /\ req[r].id \notin DOMAIN heroes

\* The collection a delete request addresses.
Collection(kind) == IF kind = "deleteProduct" THEN products ELSE heroes
IsDelete(r) == req[r].kind \in {"deleteProduct", "deleteHero"}

\* C8 as claimed: a delete request for an id that is not in its collection
\* is answered 200 and leaves both collections as they were.
C8_Original ==
  [][\A r \in Reqs :
       (IsDelete(r) /\ Steps(r) /\ req[r].id \notin DOMAIN Collection(req[r].kind)) =>
         /\ req'[r].status = 200
         /\ StoreUnchanged]_vars

\* C8 as amended: a delete request for an id that is not in its collection
\* leaves both collections as they were; it is answered 200 when the id is an
\* ObjectId and 500 when it is not.  A delete answered 200 leaves the id out
\* of the collection, so that a second delete of it changes nothing more.
C8_DeleteAbsent ==
  [][\A r \in Reqs :
       (IsDelete(r) /\ Steps(r)) =>
         LET id == req[r].id
             coll == Collection(req[r].kind)
             after == IF req[r].kind = "deleteProduct" THEN products' ELSE heroes'
         IN  /\ req'[r].pc = "done"
             /\ id \notin DOMAIN coll =>
                  /\ req'[r].status = IF IsObjectId(id) THEN 200 ELSE 500
                  /\ StoreUnchanged
             /\ req'[r].status = 200 =>
                  /\ id \notin DOMAIN after
                  /\ FindByIdAndDelete(after, id) = after
                  /\ \A k \in DOMAIN coll \ {id} : k \in DOMAIN after /\ after[k] = coll[k]]_vars

\* A delete of an ObjectId that no product ever had, answered 200.
C8_Witness ==
  \E r \in Reqs :
    /\ Done(r, "deleteProduct", 200)
    /\ IsObjectId(req[r].id)
    /\ req[r].id >= nextProductId

\* C9: a create-hero request whose upload succeeds persists a HeroImage
\* whose isActive is true exactly when the request's isActive is the text
\* "true" or the boolean true, and false otherwise, also when it is omitted.
C9_IsActive ==
  [][\A r \in Reqs :
       (Answers(r, "createHero") /\ req'[r].status = 201) =>
         LET id == req'[r].id
             x == req[r].isActive
         IN  /\ id \notin DOMAIN heroes
             /\ DOMAIN heroes' = DOMAIN heroes \cup {id}
             /\ heroes'[id].imageUrl = Url(HeroFolder, req[r].files[1])
             /\ heroes'[id].isActive = (x = Str("true") \/ x = Bool(TRUE))
             /\ x = Undefined => ~heroes'[id].isActive]_vars

\* A hero created from the text "true", stored active.
C9_Witness ==
  \E r \in Reqs :
    /\ Done(r, "createHero", 201)
    /\ req[r].isActive = Str("true")
    /\ req[r].id \in DOMAIN heroes
    /\ heroes[req[r].id].isActive

\* C10 as claimed: no toggle is lost, however the lookups and the saves of
\* overlapping toggle requests interleave: every toggle answered 200 leaves
\* the stored isActive the negation of what was stored before its save.
C10_NoLostToggle ==
  [][\A r \in Reqs :
       (Answers(r, "toggleHero") /\ req'[r].status = 200) =>
         heroes'[req[r].id].isActive = ~heroes[req[r].id].isActive]_vars

\* The value a field of the update body is stored as.
Coerced(f, body) ==
  IF f \in {"price", "quantity"} THEN ToNumber(body[f]) ELSE body[f]

UpdatesStored(r) ==
  /\ Answers(r, "updateProduct")
  /\ req[r].pc = "update"
  /\ req[r].id \in DOMAIN products

\* C6 as claimed: an update of a stored product that sends no files leaves
\* mainImage and otherImages as they were, is answered 200, and replaces the
\* fields it supplies by the supplied values.
C6_UpdateWithoutFiles ==
  [][\A r \in Reqs :
       (UpdatesStored(r) /\ Len(req[r].files) = 0 /\ Supplied(req[r].body) # {}) =>
         LET id == req[r].id
         IN  /\ id \in DOMAIN products'
             /\ products'[id].mainImage = products[id].mainImage
             /\ products'[id].otherImages = products[id].otherImages
             /\ req'[r].status = 200
             /\ \A f \in Supplied(req[r].body) :
                  products'[id][f] = Coerced(f, req[r].body)]_vars

\* C7 as claimed: an update of a stored product is answered 200 whatever
\* subset of the fields it supplies; the supplied fields are replaced and
\* every other field keeps its value.
C7_PartialUpdate ==
  [][\A r \in Reqs :
       UpdatesStored(r) =>
         LET id == req[r].id
         IN  /\ req'[r].status = 200
             /\ id \in DOMAIN products'
             /\ \A f \in Fields :
                  products'[id][f] = IF f \in Supplied(req[r].body)
                                     THEN Coerced(f, req[r].body)
                                     ELSE products[id][f]]_vars

====
